---- MODULE Spec2Model ----
(***************************************************************************)
(* Verification model of the resilience core of ai-assist-chat-poc:        *)
(*   - CircuitBreakerService (assist-chat-api/src/ai/circuit-breaker.      *)
(*     service.ts), driven directly by callers as its unit tests do;       *)
(*   - AIService.streamCompletion / streamWithRetry / executeStream;       *)
(*   - ChatService.processMessage and the session map.                     *)
(* Time is in milliseconds, as Date.now() is.                              *)
(***************************************************************************)
EXTENDS Integers, Sequences, FiniteSets, TLC

\* ------------------------------------------------------------------ bounds
MaxOps == 2        \* direct callers of execute() that may be in flight at once
MaxTicks == 3      \* number of times the wall clock is advanced by Tick
MaxCalls == 7      \* operations invoked through execute() by direct callers
MaxReq == 2        \* processMessage calls that may be awaiting completion at once
MaxSubmits == 2    \* processMessage calls in one behaviour
MaxStreams == 6    \* processMessage calls in one behaviour of the retry scenario
MaxChunks == 2     \* chunks the upstream yields in one behaviour
MaxAttemptStreams == 2  \* processMessage calls in one behaviour of SpecAttempts
MaxMsgs == 3       \* messages in a list handed to fitToContextWindow
MaxTurns == 12     \* messages of a session handed to buildConversationContext
MaxAdminSubmits == 2  \* processMessage calls in one behaviour of SpecAdmin
MaxSweepSubmits == 3  \* processMessage calls in one behaviour of SpecSweep
MaxBudget == 4     \* largest maxContextTokens handed to fitToContextWindow
MaxSockets == 6      \* sockets the browser opens
MaxOfflineSends == 1 \* messages typed while the socket is not connected
MaxAttempt == 12     \* attempt numbers handed to calculateRetryDelay
MaxFails == 3      \* upstream attempts that fail in one behaviour of the chat

\* ------------------------------------------------- program constants
failureThreshold == 5
successThreshold == 2
timeout == 60000
Null == -1         \* lastFailureTime: number | null
maxRetries == 3
ForeignId == 0     \* a sessionId made up by the caller, never generated here
maxContextMessages == 10
maxSessionAgeMinutes == 60
maxReconnectAttempts == 5
NoArg == -1        \* an optional argument left out

VARIABLES
  cb,       \* the breaker's fields: state, failureCount, successCount, lastFailureTime
  now,      \* Date.now()
  ticks,    \* how often the clock was advanced
  op,       \* direct callers of execute(): position of each and the state it was admitted in
  calls,    \* number of times execute() invoked the operation handed to it
  consec,   \* history: failures of operations since the last success or reset()
  ev,       \* history: the step just taken
  sessions, \* ChatService.sessions: session id -> session object (index in objs)
  objs,     \* the ChatSession objects ever created: id, messages, updatedAt
  req,      \* processMessage calls: the closure of each call and what its caller saw
  uuid,     \* number of randomUUID() values drawn so far
  nsub,     \* number of processMessage calls so far
  upfails,  \* history: upstream attempts that failed since the last one that succeeded
  nchunk,   \* history: chunks the upstream has yielded
  nfail,    \* history: upstream attempts that failed
  call,     \* a call of a pure method: its name, its arguments, what it returned
  app       \* the browser: WebSocketService's fields, its sockets and timers, the chat's sessionId

cbVars == <<cb, op, calls, consec>>
chatVars == <<sessions, objs, req, uuid, nsub, upfails, nchunk, nfail>>
vars == <<cb, now, ticks, op, calls, consec, ev, sessions, objs, req, uuid, nsub,
          upfails, nchunk, nfail, call, app>>

Ops == 1..MaxOps
CircuitState == {"CLOSED", "OPEN", "HALF_OPEN"}

Event(o, c, r) == [op |-> o, c |-> c, res |-> r]

\* ev follows the direct callers of execute() only; the steps of a chat
\* request are read off req
ChatEvent == Event("chat", 0, "-")

\* ------------------------------------------------ CircuitBreakerService
transitionToClosed(b) == [b EXCEPT !.state = "CLOSED", !.successCount = 0]

transitionToOpen(b) == [b EXCEPT !.state = "OPEN"]

transitionToHalfOpen(b) == [b EXCEPT !.state = "HALF_OPEN"]

\* variant: the timeout taken in seconds while the clock is in milliseconds
shouldAttemptReset_units(b, t) ==
  /\ b.lastFailureTime # Null
  /\ t - b.lastFailureTime >= timeout \div 1000

shouldAttemptReset(b, t) ==
  /\ b.lastFailureTime # Null
  /\ t - b.lastFailureTime >= timeout

\* variant: one success too many asked for
onSuccess_gt(b) ==
  LET b1 == [b EXCEPT !.failureCount = 0] IN
  IF b1.state = "HALF_OPEN"
    THEN LET b2 == [b1 EXCEPT !.successCount = @ + 1] IN
         IF b2.successCount > successThreshold
           THEN transitionToClosed(b2)
           ELSE b2
    ELSE b1

onSuccess(b) ==
  LET b1 == [b EXCEPT !.failureCount = 0] IN
  IF b1.state = "HALF_OPEN"
    THEN LET b2 == [b1 EXCEPT !.successCount = @ + 1] IN
         IF b2.successCount >= successThreshold
           THEN transitionToClosed(b2)
           ELSE b2
    ELSE b1

\* variant: the threshold compared with > instead of >=
onFailure_gt(b, t) ==
  LET b1 == [b EXCEPT !.failureCount = @ + 1,
                      !.lastFailureTime = t,
                      !.successCount = 0] IN
  IF b1.failureCount > failureThreshold
    THEN transitionToOpen(b1)
    ELSE b1

onFailure(b, t) ==
  LET b1 == [b EXCEPT !.failureCount = @ + 1,
                      !.lastFailureTime = t,
                      !.successCount = 0] IN
  IF b1.failureCount >= failureThreshold
    THEN transitionToOpen(b1)
    ELSE b1

\* variant: the counters cleared, the state left as it is
reset_counters(b) ==
  [b EXCEPT !.failureCount = 0, !.successCount = 0, !.lastFailureTime = Null]

reset(b) ==
  [state |-> "CLOSED", failureCount |-> 0, successCount |-> 0,
   lastFailureTime |-> Null]

getStats(b) ==
  [state |-> b.state, failureCount |-> b.failureCount,
   successCount |-> b.successCount, lastFailureTime |-> b.lastFailureTime]

\* variant: an OPEN breaker rejects whatever the clock says
rejects_open(b, t) == b.state = "OPEN"

\* The head of execute(): TRUE when the call is rejected without running fn.
rejects(b, t) == b.state = "OPEN" /\ ~shouldAttemptReset(b, t)

\* variant: fn called without the move to HALF_OPEN
admit_asis(b, t) == b

\* The breaker as execute() leaves it just before it calls fn.
admit(b, t) ==
  IF b.state = "OPEN" /\ shouldAttemptReset(b, t)
    THEN transitionToHalfOpen(b)
    ELSE b

\* ------------------------------------------------------------ AIService
Min(a, b) == IF a < b THEN a ELSE b

\* variant: the exponent one too high
calculateRetryDelay_next(attempt) == Min(1000 * 2^attempt, 10000)

\* calculateRetryDelay: Math.min(1000 * Math.pow(2, attempt - 1), 10000)
calculateRetryDelay(attempt) == Min(1000 * 2^(attempt - 1), 10000)

\* what the upstream call can reject with: an HTTP status, or 0 for an error
\* that carries no response
UpstreamErrors == {401, 429, 503, 0}

handleOpenAIError(status) ==
  CASE status = 0   -> "Error"
    [] status = 429 -> "AIRateLimitException"
    [] status = 401 -> "AIAuthenticationException"
    [] OTHER        -> "AIUnexpectedErrorException"

\* variant: one attempt too many
retries_le(attempt, error) == attempt <= maxRetries

\* streamWithRetry's catch block: TRUE when another attempt follows
retries(attempt, error) == attempt < maxRetries

\* variant: each attempt wrapped in an execute() of its own
afterAttempt_each(b, t, retrying) == onFailure(b, t)

\* The breaker after an attempt failed: streamCompletion hands execute() the
\* whole of streamWithRetry, so execute()'s catch (onFailure) runs only once
\* streamWithRetry rethrows, not while it retries.
afterAttempt(b, t, retrying) == IF retrying THEN b ELSE onFailure(b, t)

\* delta.content of a chunk: text as a sequence of characters, <<>> when the
\* chunk carries none
Contents == {<<>>, <<"a">>, <<"b", "c">>}

\* variant: the guard on content dropped
emits_all(content) == TRUE

\* executeStream: "if (content) stream.next(content)"
emits(content) == content # <<>>

\* estimateTokens: Math.ceil(text.length / 4)
estimateTokens(text) == (Len(text) + 3) \div 4

\* variant: a message that does not fit is passed over and the loop goes on
RECURSIVE fitLoop_skip(_, _, _, _, _)
fitLoop_skip(messages, i, totalTokens, fittedMessages, maxContextTokens) ==
  IF i = 0 THEN fittedMessages
  ELSE IF messages[i].role = "system"
    THEN fitLoop_skip(messages, i - 1, totalTokens, fittedMessages, maxContextTokens)
  ELSE LET messageTokens == estimateTokens(messages[i].content) IN
       IF totalTokens + messageTokens > maxContextTokens
         THEN fitLoop_skip(messages, i - 1, totalTokens, fittedMessages,
                           maxContextTokens)
         ELSE fitLoop_skip(messages, i - 1, totalTokens + messageTokens,
                           <<messages[i]>> \o fittedMessages, maxContextTokens)

\* the loop of fitToContextWindow, from index i downwards: system messages
\* are skipped, the first message that does not fit ends the loop, a message
\* that fits is put at the front of fittedMessages (unshift)
RECURSIVE fitLoop(_, _, _, _, _)
fitLoop(messages, i, totalTokens, fittedMessages, maxContextTokens) ==
  IF i = 0 THEN fittedMessages
  ELSE IF messages[i].role = "system"
    THEN fitLoop(messages, i - 1, totalTokens, fittedMessages, maxContextTokens)
  ELSE LET messageTokens == estimateTokens(messages[i].content) IN
       IF totalTokens + messageTokens > maxContextTokens
         THEN fittedMessages
         ELSE fitLoop(messages, i - 1, totalTokens + messageTokens,
                      <<messages[i]>> \o fittedMessages, maxContextTokens)

\* variant: a system message made up when the list holds none
fitToContextWindow_prompt(messages, maxContextTokens) ==
  LET sys == {i \in 1..Len(messages) : messages[i].role = "system"}
      systemMessage == IF sys = {}
                         THEN [id |-> 0, role |-> "system", content |-> <<"p">>]
                         ELSE messages[CHOOSE i \in sys : \A j \in sys : i <= j]
  IN fitLoop(messages, Len(messages), estimateTokens(systemMessage.content),
             <<systemMessage>>, maxContextTokens)

\* fitToContextWindow: the first system message, if any, is pushed before
\* the loop, whatever it costs
fitToContextWindow(messages, maxContextTokens) ==
  LET sys == {i \in 1..Len(messages) : messages[i].role = "system"} IN
  IF sys = {}
    THEN fitLoop(messages, Len(messages), 0, <<>>, maxContextTokens)
    ELSE LET systemMessage == messages[CHOOSE i \in sys : \A j \in sys : i <= j] IN
         fitLoop(messages, Len(messages), estimateTokens(systemMessage.content),
                 <<systemMessage>>, maxContextTokens)

\* ----------------------------------------------------------- ChatService
Reqs == 1..MaxReq
Texts == {<<"h", "i">>}

createMessage(role, content, sessionId, id) ==
  [id |-> id, role |-> role, content |-> content, sessionId |-> sessionId]

FreeReq ==
  [st |-> "free", sid |-> ForeignId, obj |-> 0, mid |-> 0,
   attempt |-> 0, wakeAt |-> 0, ncalls |-> 0, delays |-> <<>>, err |-> "-",
   content |-> <<>>, fwd |-> <<>>, up |-> <<>>, pre |-> <<>>, alone |-> TRUE,
   sub |-> FALSE, subAt |-> 0, recv |-> <<>>, term |-> "none", nterm |-> 0,
   gone |-> FALSE, out |-> <<>>, at |-> 0]

Pending(q) == q.st \in {"running", "sleeping"}

\* Subject.next / error / complete of the stream processMessage returns, as
\* seen by the caller: a plain Subject hands a value only to subscribers
\* present at that moment.
\* The subscriber is ChatGateway.handleMessage, whose handlers emit to the
\* client's socket; out is what the socket was handed, in order.
emitChunk(messageId, chunk) ==
  <<[event |-> "message-chunk", id |-> messageId, chunk |-> chunk,
     isComplete |-> FALSE]>>

\* variant: the completion marker sent after the error event as well
emitEnd_both(messageId, how) ==
  IF how = "error"
    THEN <<[event |-> "error", message |-> "Failed to generate response"],
           [event |-> "message-chunk", id |-> messageId, chunk |-> <<>>,
            isComplete |-> TRUE]>>
    ELSE <<[event |-> "message-chunk", id |-> messageId, chunk |-> <<>>,
            isComplete |-> TRUE]>>

emitEnd(messageId, how) ==
  IF how = "error"
    THEN <<[event |-> "error", message |-> "Failed to generate response"]>>
    ELSE <<[event |-> "message-chunk", id |-> messageId, chunk |-> <<>>,
            isComplete |-> TRUE]>>

SubjectNext(q, chunk) ==
  IF q.sub
    THEN [q EXCEPT !.recv = Append(@, chunk), !.out = @ \o emitChunk(q.mid, chunk)]
    ELSE q

SubjectEnd(q, how) ==
  IF q.sub
    THEN [q EXCEPT !.term = how, !.nterm = @ + 1, !.out = @ \o emitEnd(q.mid, how)]
    ELSE q

\* variant: the chunk assigned instead of added
onChunk_assign(q, chunk) ==
  SubjectNext([q EXCEPT !.content = chunk, !.fwd = Append(@, chunk)], chunk)

\* the "next" handler of processMessage's subscription
onChunk(q, chunk) ==
  SubjectNext([q EXCEPT !.content = @ \o chunk, !.fwd = Append(@, chunk)], chunk)

\* variant: createMessage left to draw an id of its own
onComplete_newId(ss, q, t) ==
  [ss EXCEPT ![q.obj].messages =
               Append(@, createMessage("assistant", q.content, q.sid, q.mid + 1)),
             ![q.obj].updatedAt = t]

\* the "complete" handler: the session object gains the assistant message
onComplete(ss, q, t) ==
  [ss EXCEPT ![q.obj].messages =
               Append(@, createMessage("assistant", q.content, q.sid, q.mid)),
             ![q.obj].updatedAt = t]

\* variant: the text received so far saved as the assistant message
onError_savePartial(ss, q) ==
  [ss EXCEPT ![q.obj].messages =
               Append(@, createMessage("assistant", q.content, q.sid, q.mid))]

\* the "error" handler: nothing but the error is passed on
onError(ss, q) == ss

SystemPrompt == <<"p">>

\* Array.prototype.slice(-k), k > 0: the last k elements, all when fewer
Slice(s, k) == IF Len(s) <= k THEN s ELSE SubSeq(s, Len(s) - k + 1, Len(s))

\* variant: the whole transcript taken
buildConversationContext_all(session, id) ==
  <<createMessage("system", SystemPrompt, session.id, id)>> \o session.messages

\* buildConversationContext; id is the randomUUID() createMessage draws for
\* the system message
buildConversationContext(session, id) ==
  LET recentMessages == Slice(session.messages, maxContextMessages)
      hasSystemMessage == recentMessages # <<>> /\ recentMessages[1].role = "system"
  IN IF hasSystemMessage
       THEN recentMessages
       ELSE <<createMessage("system", SystemPrompt, session.id, id)>> \o recentMessages

\* the ids a caller can pass as sessionId
KnownIds == {objs[i].id : i \in 1..Len(objs)} \cup {ForeignId}

\* variant: the map never consulted
sessionsHas_never(ss, sid) == FALSE

\* getOrCreateSession: this.sessions.has(sessionId)
sessionsHas(ss, sid) == sid \in DOMAIN ss

\* variant: the new session filed under an id of its own
newSession_anon(sid, t) == [id |-> sid + 1, messages |-> <<>>, updatedAt |-> t]

\* getOrCreateSession: the session object made for an id the map lacks
newSession(sid, t) == [id |-> sid, messages |-> <<>>, updatedAt |-> t]

\* processMessage up to its return, streamCompletion and the head of
\* execute() included.  given = FALSE stands for a call without sessionId.
processMessage(r, given, sidArg, text) ==
  LET sid == IF given THEN sidArg ELSE uuid + 1
      u1 == IF given THEN uuid ELSE uuid + 1
      exists == sessionsHas(sessions, sid)
      o == IF exists THEN sessions[sid] ELSE Len(objs) + 1
      objs1 == IF exists THEN objs
               ELSE Append(objs, newSession(sid, now))
      userMessage == createMessage("user", text, sid, u1 + 1)
      mid == u1 + 2
      q0 == [FreeReq EXCEPT !.sid = sid, !.obj = o, !.mid = mid, !.at = now,
                            !.pre = objs1[o].messages,
                            !.alone = \A x \in Reqs \ {r} :
                                        ~(Pending(req[x]) /\ req[x].obj = o)]
      others == [x \in Reqs |->
                   IF x # r /\ Pending(req[x]) /\ req[x].obj = o
                     THEN [req[x] EXCEPT !.alone = FALSE]
                     ELSE req[x]]
  IN
  /\ ~Pending(req[r])
  /\ \A x \in Reqs : x < r => Pending(req[x])
  /\ nsub' = nsub + 1
  /\ uuid' = mid
  /\ sessions' = IF exists THEN sessions ELSE (sid :> o) @@ sessions
  /\ IF rejects(cb, now)
       THEN \* execute() throws, streamCompletion's catch errors the stream
            /\ objs' = onError([objs1 EXCEPT ![o].messages = Append(@, userMessage)],
                               q0)
            /\ req' = [others EXCEPT ![r] =
                         [q0 EXCEPT !.st = "error",
                                    !.err = "CircuitBreakerOpenException"]]
            /\ ev' = ChatEvent
            /\ UNCHANGED <<cb, calls>>
       ELSE \* fn() runs: streamWithRetry, executeStream, the upstream call
            /\ objs' = [objs1 EXCEPT ![o].messages = Append(@, userMessage)]
            /\ req' = [others EXCEPT ![r] =
                         [q0 EXCEPT !.st = "running", !.attempt = 1,
                                    !.ncalls = 1]]
            /\ cb' = admit(cb, now)
            /\ calls' = calls + 1
            /\ ev' = ChatEvent
  /\ UNCHANGED <<now, ticks, op, consec, upfails, nchunk, nfail>>

\* processMessage called by a caller on the server
Submit(r, given, sidArg, text) ==
  /\ processMessage(r, given, sidArg, text)
  /\ UNCHANGED <<call, app>>

\* the caller of processMessage subscribes to the stream it was handed; a
\* Subject that already ended hands the late subscriber its end at once
Subscribe(r) ==
  /\ req[r].st # "free"
  /\ ~req[r].sub
  /\ LET q == [req[r] EXCEPT !.sub = TRUE, !.subAt = Len(req[r].fwd)] IN
     req' = [req EXCEPT ![r] =
               CASE q.st = "done"  -> SubjectEnd(q, "complete")
                 [] q.st = "error" -> SubjectEnd(q, "error")
                 [] OTHER          -> q]
  /\ ev' = ChatEvent
  /\ UNCHANGED <<cb, now, ticks, op, calls, consec, sessions, objs, uuid, nsub,
                 upfails, nchunk, nfail>>
  /\ UNCHANGED <<call, app>>

\* executeStream: the upstream yields a chunk without finish_reason
UpChunk(r, content) ==
  /\ req[r].st = "running"
  /\ LET q == [req[r] EXCEPT !.up = Append(@, content)] IN
     req' = [req EXCEPT ![r] = IF emits(content) THEN onChunk(q, content) ELSE q]
  /\ nchunk' = nchunk + 1
  /\ ev' = ChatEvent
  /\ UNCHANGED <<cb, now, ticks, op, calls, consec, sessions, objs, uuid, nsub,
                 upfails, nfail>>
  /\ UNCHANGED <<call, app>>

\* executeStream: the upstream's last chunk (finish_reason set, or the end
\* of the iteration when content is <<>>); stream.complete(), then
\* execute() resumes with onSuccess()
UpFinish(r, content) ==
  /\ req[r].st = "running"
  /\ LET q0 == IF emits(content)
                 THEN onChunk([req[r] EXCEPT !.up = Append(@, content)], content)
                 ELSE req[r]
         q1 == SubjectEnd([q0 EXCEPT !.st = "done"], "complete")
     IN
     /\ objs' = onComplete(objs, q0, now)
     /\ req' = [x \in Reqs |->
                  IF x = r THEN q1
                  ELSE IF Pending(req[x]) /\ req[x].obj = req[r].obj
                         THEN [req[x] EXCEPT !.alone = FALSE]
                         ELSE req[x]]
  /\ cb' = onSuccess(cb)
  /\ upfails' = 0
  /\ nchunk' = IF emits(content) THEN nchunk + 1 ELSE nchunk
  /\ ev' = ChatEvent
  /\ UNCHANGED <<now, ticks, op, calls, consec, sessions, uuid, nsub, nfail>>
  /\ UNCHANGED <<call, app>>

\* executeStream: the upstream call or the iteration throws.  Either
\* streamWithRetry sleeps before the next attempt, or it rethrows: execute()
\* runs onFailure() and streamCompletion's catch errors the stream.
UpFail(r, status) ==
  /\ req[r].st = "running"
  /\ LET e == handleOpenAIError(status) IN
     IF retries(req[r].attempt, e)
       THEN /\ req' = [req EXCEPT ![r] =
                         [@ EXCEPT !.st = "sleeping", !.err = e,
                                   !.wakeAt = now + calculateRetryDelay(req[r].attempt),
                                   !.delays = Append(@, calculateRetryDelay(req[r].attempt))]]
            /\ cb' = afterAttempt(cb, now, TRUE)
            /\ ev' = ChatEvent
            /\ UNCHANGED objs
       ELSE /\ req' = [req EXCEPT ![r] =
                         SubjectEnd([@ EXCEPT !.st = "error", !.err = e], "error")]
            /\ objs' = onError(objs, req[r])
            /\ cb' = afterAttempt(cb, now, FALSE)
            /\ ev' = ChatEvent
  /\ upfails' = upfails + 1
  /\ nfail' = nfail + 1
  /\ UNCHANGED <<now, ticks, op, calls, consec, sessions, uuid, nsub, nchunk>>
  /\ UNCHANGED <<call, app>>

\* variant: the new attempt starts from an empty text
SleepDone_restart(r) ==
  /\ req[r].st = "sleeping"
  /\ now' = IF now < req[r].wakeAt THEN req[r].wakeAt ELSE now
  /\ req' = [req EXCEPT ![r] = [@ EXCEPT !.st = "running", !.attempt = @ + 1,
                                         !.ncalls = @ + 1, !.content = <<>>,
                                         !.fwd = <<>>, !.recv = <<>>]]
  /\ ev' = ChatEvent
  /\ UNCHANGED <<cb, ticks, op, calls, consec, sessions, objs, uuid, nsub,
                 upfails, nchunk, nfail>>
  /\ UNCHANGED <<call, app>>

\* sleep(delay) is over (the timer fires no earlier than wakeAt):
\* streamWithRetry(attempt + 1) calls the upstream again
SleepDone(r) ==
  /\ req[r].st = "sleeping"
  /\ now' = IF now < req[r].wakeAt THEN req[r].wakeAt ELSE now
  /\ req' = [req EXCEPT ![r] = [@ EXCEPT !.st = "running", !.attempt = @ + 1,
                                         !.ncalls = @ + 1]]
  /\ ev' = ChatEvent
  /\ UNCHANGED <<cb, ticks, op, calls, consec, sessions, objs, uuid, nsub,
                 upfails, nchunk, nfail>>
  /\ UNCHANGED <<call, app>>

\* ------------------------------------------- the browser (assist-chat-app)
NoSocket == 0
NoTimer == 0
DisconnectReasons == {"io server disconnect", "transport close"}

\* WebSocketService once its constructor has run connect(), and the chat's
\* sessionId signal.  socks holds the sockets io() has returned, each with
\* the service's handlers registered: a socket is "connecting" until it
\* reports connect or connect_error, "connected" until it reports disconnect
\* (reconnection: false).  timers holds the setTimeout calls not yet fired
\* or cleared.  barred (history) holds the timers that were pending when a
\* disconnect() returned; quiet (history) tells that the application called
\* disconnect() and has not called connect() since; last (history) names the
\* handler that ran last.
\* The chat's signals: messages (each with the history field answers, the
\* messageId the server gave the request the placeholder was made for),
\* isLoading, error, streamingMessageId; nid counts generateUniqueId() calls.
\* seen[r] is the number of events of request r's socket output handed to
\* the browser so far, got (history) the last one handed over.
NoError == "null"

InitApp ==
  [sessionId |-> Null, socket |-> 1, socks |-> <<"connecting">>,
   connectionState |-> "CONNECTING", reconnectAttempts |-> 0,
   reconnectTimeoutId |-> NoTimer, timers |-> {}, ntimers |-> 0,
   errors |-> <<>>, barred |-> {}, quiet |-> FALSE, last |-> "constructor",
   messages |-> <<>>, isLoading |-> FALSE, error |-> NoError,
   streamingMessageId |-> Null, nid |-> 0,
   seen |-> [r \in Reqs |-> 0], got |-> [event |-> "-"]]

\* the chat's handleError
handleError(a, error) == [a EXCEPT !.error = error, !.isLoading = FALSE]

\* errorSubject.next(message): the chat, subscribed to error$ since its
\* constructor, runs handleError
emitError(a, message) ==
  handleError([a EXCEPT !.errors = Append(@, message)], message)

appendChunkToMessage(message, chunk) ==
  [message EXCEPT !.content = @ \o chunk.chunk,
                  !.isStreaming = ~chunk.isComplete]

\* the chat's handleMessageChunk: updateStreamingMessage on the message whose
\* id is streamingMessageId, finalizeStreamingMessage on the last chunk
handleMessageChunk(a, chunk) ==
  IF a.streamingMessageId = Null
    THEN a
    ELSE LET a1 == [a EXCEPT !.messages =
                       [i \in DOMAIN @ |->
                          IF @[i].id = a.streamingMessageId
                            THEN appendChunkToMessage(@[i], chunk)
                            ELSE @[i]]]
         IN IF chunk.isComplete
              THEN [a1 EXCEPT !.streamingMessageId = Null, !.isLoading = FALSE]
              ELSE a1

\* the chat's sendMessage up to transmitMessage: the error cleared, the user
\* message and the assistant placeholder appended
sendMessage(a, content) ==
  [a EXCEPT !.error = NoError,
            !.messages = @ \o
               <<[id |-> a.nid + 1, role |-> "user", content |-> content,
                  isStreaming |-> FALSE, answers |-> 0],
                 [id |-> a.nid + 2, role |-> "assistant", content |-> <<>>,
                  isStreaming |-> TRUE, answers |-> 0]>>,
            !.streamingMessageId = a.nid + 2,
            !.isLoading = TRUE,
            !.nid = a.nid + 2]

isSocketConnected(a) ==
  a.socket # NoSocket /\ a.socks[a.socket] = "connected"

\* connect(): a new socket unless the current one is connected
connect(a) ==
  IF isSocketConnected(a)
    THEN a
    ELSE [a EXCEPT !.connectionState = "CONNECTING",
                   !.socks = Append(@, "connecting"),
                   !.socket = Len(a.socks) + 1]

clearReconnectionTimeout(a) ==
  IF a.reconnectTimeoutId # NoTimer
    THEN [a EXCEPT !.timers = @ \ {a.reconnectTimeoutId},
                   !.reconnectTimeoutId = NoTimer]
    ELSE a

resetReconnectionState(a) ==
  clearReconnectionTimeout([a EXCEPT !.reconnectAttempts = 0])

\* variant: one attempt more before giving up
hasExceededMaxReconnectAttempts_gt(a) ==
  a.reconnectAttempts > maxReconnectAttempts

hasExceededMaxReconnectAttempts(a) ==
  a.reconnectAttempts >= maxReconnectAttempts

\* initiateReconnection, scheduleReconnection included: the id setTimeout
\* returns overwrites reconnectTimeoutId
initiateReconnection(a) ==
  IF hasExceededMaxReconnectAttempts(a)
    THEN emitError([a EXCEPT !.connectionState = "ERROR"],
                   "Failed to reconnect to server")
    ELSE [a EXCEPT !.reconnectAttempts = @ + 1,
                   !.connectionState = "RECONNECTING",
                   !.ntimers = @ + 1,
                   !.reconnectTimeoutId = a.ntimers + 1,
                   !.timers = @ \cup {a.ntimers + 1}]

AppFrame ==
  /\ UNCHANGED <<cb, now, ticks, op, calls, consec, ev, call>>
  /\ UNCHANGED chatVars

\* connect() called by the application
WsConnect ==
  /\ isSocketConnected(app) \/ Len(app.socks) < MaxSockets
  /\ app' = [connect(app) EXCEPT !.quiet = FALSE, !.last = "connect"]
  /\ AppFrame

\* a reconnection timer fires: connect()
TimerFire(t) ==
  /\ t \in app.timers
  /\ isSocketConnected(app) \/ Len(app.socks) < MaxSockets
  /\ app' = [connect([app EXCEPT !.timers = @ \ {t}]) EXCEPT !.last = "timer"]
  /\ AppFrame

\* socket s reports connect
OnConnect(s) ==
  /\ s \in DOMAIN app.socks
  /\ app.socks[s] = "connecting"
  /\ app' = [resetReconnectionState(
               [app EXCEPT !.socks[s] = "connected",
                           !.connectionState = "CONNECTED"])
             EXCEPT !.last = "onConnect"]
  /\ AppFrame

\* socket s reports disconnect
OnDisconnect(s, reason) ==
  /\ s \in DOMAIN app.socks
  /\ app.socks[s] = "connected"
  /\ LET a == [app EXCEPT !.socks[s] = "closed",
                          !.connectionState = "DISCONNECTED"]
     IN app' = [(IF reason = "io server disconnect"
                   THEN initiateReconnection(a) ELSE a)
                EXCEPT !.last = "onDisconnect"]
  /\ AppFrame

\* socket s reports connect_error
OnConnectionError(s) ==
  /\ s \in DOMAIN app.socks
  /\ app.socks[s] = "connecting"
  /\ app' = [initiateReconnection(
               emitError([app EXCEPT !.socks[s] = "closed",
                                     !.connectionState = "ERROR"],
                         "Connection error"))
             EXCEPT !.last = "onConnectionError"]
  /\ AppFrame

\* disconnect(): the timer on record cleared, the current socket closed
\* (its disconnect event, "io client disconnect", starts no reconnection)
WsDisconnect ==
  /\ LET a == clearReconnectionTimeout(app)
     IN app' = [a EXCEPT !.socks = IF a.socket = NoSocket THEN @
                                     ELSE [@ EXCEPT ![a.socket] = "closed"],
                         !.socket = NoSocket,
                         !.connectionState = "DISCONNECTED",
                         !.barred = @ \cup a.timers,
                         !.quiet = TRUE,
                         !.last = "disconnect"]
  /\ AppFrame

\* the chat's sendMessage: transmitMessage hands the sessionId signal to
\* WebSocketService.sendMessage; a connected socket carries the message to
\* ChatGateway.handleMessage, which calls processMessage(message, sessionId).
\* No handler of the browser writes the signal but clearMessages, with null.
ClientSend(r, text) ==
  LET a == sendMessage(app, text) IN
  IF isSocketConnected(app)
    THEN /\ processMessage(r, app.sessionId # Null, app.sessionId, text)
         /\ app' = [a EXCEPT !.messages[Len(a.messages)].answers = uuid',
                             !.seen[r] = 0,
                             !.last = "sendMessage"]
         /\ UNCHANGED call
    ELSE /\ app' = [emitError(a, "Not connected to server")
                    EXCEPT !.last = "sendMessage"]
         /\ AppFrame

\* the socket hands the browser the next event the gateway emitted for
\* request r: message-chunk goes to handleMessageChunk, error to onError
Deliver(r) ==
  /\ isSocketConnected(app)
  /\ app.seen[r] < Len(req[r].out)
  /\ LET e == req[r].out[app.seen[r] + 1]
         a == [app EXCEPT !.seen[r] = @ + 1, !.got = e, !.last = "deliver"]
     IN app' = IF e.event = "error"
                 THEN emitError(a, e.message)
                 ELSE handleMessageChunk(a, e)
  /\ AppFrame

\* ------------------------------------------------------------- initial state
NoCall == [fn |-> "-"]

\* the services as constructed
InitServices ==
  /\ cb = [state |-> "CLOSED", failureCount |-> 0, successCount |-> 0,
           lastFailureTime |-> Null]
  /\ now = 0
  /\ ticks = 0
  /\ op = [c \in Ops |-> [st |-> "idle", admittedIn |-> "-"]]
  /\ calls = 0
  /\ consec = 0
  /\ ev = Event("init", 0, "-")
  /\ sessions = <<>>
  /\ objs = <<>>
  /\ req = [r \in Reqs |-> FreeReq]
  /\ uuid = 0
  /\ nsub = 0
  /\ upfails = 0
  /\ nchunk = 0
  /\ nfail = 0
  /\ app = InitApp

Init == InitServices /\ call = NoCall

\* ------------------------------------------------- calls of pure methods
Roles == {"system", "user", "assistant"}
Text(n) == [i \in 1..n |-> "x"]
FitTexts == {Text(1), Text(5), Text(8)}

\* the message lists handed to fitToContextWindow; the id of a message is
\* its place in the list
FitMessages ==
  UNION {{[i \in 1..n |-> [id |-> i, role |-> f[i][1], content |-> f[i][2]]] :
            f \in [1..n -> Roles \X FitTexts]} : n \in 0..MaxMsgs}

InitFit ==
  /\ InitServices
  /\ call \in {[fn |-> "fitToContextWindow", messages |-> m,
                maxContextTokens |-> b, done |-> FALSE, result |-> <<>>] :
                 m \in FitMessages, b \in 0..MaxBudget}

FitToContextWindow ==
  /\ call.fn = "fitToContextWindow"
  /\ ~call.done
  /\ call' = [call EXCEPT !.done = TRUE,
                          !.result = fitToContextWindow(call.messages,
                                                        call.maxContextTokens)]
  /\ UNCHANGED <<cb, now, ticks, op, calls, consec, ev>>
  /\ UNCHANGED chatVars
  /\ UNCHANGED app

NextFit == FitToContextWindow

SpecFit == InitFit /\ [][NextFit]_vars

\* The transcripts a session can hold when processMessage builds the
\* context: user and assistant messages, no more assistant messages than user
\* messages before them, the user message just pushed last.
Transcripts ==
  UNION {{[i \in 1..n |-> createMessage(f[i], <<"h", "i">>, 1, i)] :
            f \in {g \in [1..n -> {"user", "assistant"}] :
                     /\ g[n] = "user"
                     /\ \A k \in 1..n :
                          2 * Cardinality({i \in 1..k : g[i] = "assistant"}) <= k}} :
         n \in 1..MaxTurns}

InitContext ==
  /\ InitServices
  /\ call \in {[fn |-> "buildConversationContext",
                session |-> [id |-> 1, messages |-> m, updatedAt |-> 0],
                done |-> FALSE, result |-> <<>>] : m \in Transcripts}

BuildConversationContext ==
  /\ call.fn = "buildConversationContext"
  /\ ~call.done
  /\ call' = [call EXCEPT !.done = TRUE,
                          !.result = buildConversationContext(call.session,
                                       Len(call.session.messages) + 1)]
  /\ UNCHANGED <<cb, now, ticks, op, calls, consec, ev>>
  /\ UNCHANGED chatVars
  /\ UNCHANGED app

NextContext == BuildConversationContext

SpecContext == InitContext /\ [][NextContext]_vars

\* calculateRetryDelay called with any attempt number
InitDelay ==
  /\ InitServices
  /\ call \in {[fn |-> "calculateRetryDelay", attempt |-> n, done |-> FALSE,
                result |-> 0] : n \in 1..MaxAttempt}

CalculateRetryDelay ==
  /\ call.fn = "calculateRetryDelay"
  /\ ~call.done
  /\ call' = [call EXCEPT !.done = TRUE,
                          !.result = calculateRetryDelay(call.attempt)]
  /\ UNCHANGED <<cb, now, ticks, op, calls, consec, ev>>
  /\ UNCHANGED chatVars
  /\ UNCHANGED app

\* ------------------------------------------- execute() called directly
InFlight == {c \in Ops : op[c].st = "running"}

\* execute(fn) up to its first suspension: either the fast-fail throw, or
\* fn() has been called and its promise is awaited.
ExecuteCall(c) ==
  /\ op[c].st = "idle"
  /\ IF rejects(cb, now)
       THEN /\ ev' = Event("execute", c, "fastfail")
            /\ UNCHANGED <<cb, op, calls, consec>>
       ELSE /\ calls < MaxCalls
            /\ cb' = admit(cb, now)
            /\ op' = [op EXCEPT ![c] = [st |-> "running",
                                        admittedIn |-> admit(cb, now).state]]
            /\ calls' = calls + 1
            /\ ev' = Event("execute", c, "invoked")
            /\ UNCHANGED consec
  /\ UNCHANGED <<now, ticks>>
  /\ UNCHANGED chatVars
  /\ UNCHANGED <<call, app>>

\* variant: fn called outside the try block, its throw not counted
ExecuteSyncThrow_uncounted(c) ==
  /\ op[c].st = "idle"
  /\ ~rejects(cb, now)
  /\ calls < MaxCalls
  /\ cb' = admit(cb, now)
  /\ calls' = calls + 1
  /\ consec' = consec + 1
  /\ ev' = Event("execute", c, "syncfail")
  /\ UNCHANGED <<op, now, ticks>>
  /\ UNCHANGED chatVars
  /\ UNCHANGED <<call, app>>

\* execute(fn) where fn throws before returning a promise: the throw lands
\* in the same try/catch, so onFailure runs in the same turn.
ExecuteSyncThrow(c) ==
  /\ op[c].st = "idle"
  /\ ~rejects(cb, now)
  /\ calls < MaxCalls
  /\ cb' = onFailure(admit(cb, now), now)
  /\ calls' = calls + 1
  /\ consec' = consec + 1
  /\ ev' = Event("execute", c, "syncfail")
  /\ UNCHANGED <<op, now, ticks>>
  /\ UNCHANGED chatVars
  /\ UNCHANGED <<call, app>>

\* the awaited promise resolves: onSuccess(), result returned
OpResolve(c) ==
  /\ op[c].st = "running"
  /\ cb' = onSuccess(cb)
  /\ op' = [op EXCEPT ![c].st = "idle"]
  /\ consec' = 0
  /\ ev' = Event("settle", c, "success")
  /\ UNCHANGED <<calls, now, ticks>>
  /\ UNCHANGED chatVars
  /\ UNCHANGED <<call, app>>

\* variant: the count written back from a value read before another
\* call's update, so that a failure settling beside a pending call is lost
OpReject_lost(c) ==
  /\ op[c].st = "running"
  /\ cb' = IF InFlight = {c} THEN onFailure(cb, now) ELSE cb
  /\ op' = [op EXCEPT ![c].st = "idle"]
  /\ consec' = consec + 1
  /\ ev' = Event("settle", c, "failure")
  /\ UNCHANGED <<calls, now, ticks>>
  /\ UNCHANGED chatVars
  /\ UNCHANGED <<call, app>>

\* the awaited promise rejects: onFailure(), error rethrown
OpReject(c) ==
  /\ op[c].st = "running"
  /\ cb' = onFailure(cb, now)
  /\ op' = [op EXCEPT ![c].st = "idle"]
  /\ consec' = consec + 1
  /\ ev' = Event("settle", c, "failure")
  /\ UNCHANGED <<calls, now, ticks>>
  /\ UNCHANGED chatVars
  /\ UNCHANGED <<call, app>>

Reset ==
  /\ cb' = reset(cb)
  /\ consec' = 0
  /\ ev' = Event("reset", 0, "-")
  /\ UNCHANGED <<op, calls, now, ticks>>
  /\ UNCHANGED chatVars
  /\ UNCHANGED <<call, app>>

\* variant: the read moves an OPEN breaker whose timeout has passed to
\* HALF_OPEN, as the head of execute() does
GetStats_probe ==
  /\ cb' = admit(cb, now)
  /\ call' = [fn |-> "getStats", result |-> getStats(cb')]
  /\ ev' = Event("read", 0, "-")
  /\ UNCHANGED <<op, calls, consec, now, ticks>>
  /\ UNCHANGED chatVars
  /\ UNCHANGED app

\* getStats() called directly
GetStats ==
  /\ call' = [fn |-> "getStats", result |-> getStats(cb)]
  /\ ev' = Event("read", 0, "-")
  /\ UNCHANGED <<cb, op, calls, consec, now, ticks>>
  /\ UNCHANGED chatVars
  /\ UNCHANGED app

\* getState() called directly
GetState ==
  /\ call' = [fn |-> "getState", result |-> cb.state]
  /\ ev' = Event("read", 0, "-")
  /\ UNCHANGED <<cb, op, calls, consec, now, ticks>>
  /\ UNCHANGED chatVars
  /\ UNCHANGED app

\* the wall clock advances
TickSteps == {1000, timeout - 1000, timeout}

TickBy(steps) ==
  /\ ticks < MaxTicks
  /\ \E d \in steps : now' = now + d
  /\ ticks' = ticks + 1
  /\ ev' = Event("tick", 0, "-")
  /\ UNCHANGED cbVars
  /\ UNCHANGED chatVars
  /\ UNCHANGED <<call, app>>

Tick == TickBy(TickSteps)

\* ChatGateway.handleDisconnect: the socket of the caller of request r is
\* gone; the gateway forgets the socket's session id and does nothing else
Disconnect(r) ==
  /\ req[r].st # "free"
  /\ ~req[r].gone
  /\ req' = [req EXCEPT ![r].gone = TRUE]
  /\ ev' = ChatEvent
  /\ UNCHANGED <<cb, now, ticks, op, calls, consec, sessions, objs, uuid, nsub,
                 upfails, nchunk, nfail>>
  /\ UNCHANGED <<call, app>>

\* ------------------------------------------- administrative operations
Undefined == [id |-> "undefined"]

\* ChatService.getSession: this.sessions.get(sessionId)
getSession(ss, os, sessionId) ==
  IF sessionId \in DOMAIN ss THEN os[ss[sessionId]] ELSE Undefined

\* variant: a session exactly maxAgeMinutes old removed too
clearOldSessions_ge(ss, os, t, maxAgeMinutes) ==
  LET maxAge == maxAgeMinutes * 60 * 1000
      kept == {id \in DOMAIN ss : ~(t - os[ss[id]].updatedAt >= maxAge)}
  IN IF kept = {} THEN <<>> ELSE [id \in kept |-> ss[id]]

\* ChatService.clearOldSessions: the map without the sessions whose
\* updatedAt lies more than maxAgeMinutes back
clearOldSessions(ss, os, t, maxAgeMinutes) ==
  LET maxAge == maxAgeMinutes * 60 * 1000
      kept == {id \in DOMAIN ss : ~(t - os[ss[id]].updatedAt > maxAge)}
  IN IF kept = {} THEN <<>> ELSE [id \in kept |-> ss[id]]

\* ChatService.deleteSession: this.sessions.delete(sessionId)
deleteSession(ss, sessionId) ==
  LET kept == DOMAIN ss \ {sessionId}
  IN IF kept = {} THEN <<>> ELSE [id \in kept |-> ss[id]]

DeleteSession(sessionId) ==
  /\ sessions' = deleteSession(sessions, sessionId)
  /\ call' = [fn |-> "deleteSession", sessionId |-> sessionId,
              result |-> sessionId \in DOMAIN sessions]
  /\ ev' = ChatEvent
  /\ UNCHANGED <<cb, now, ticks, op, calls, consec, objs, req, uuid, nsub,
                 upfails, nchunk, nfail>>
  /\ UNCHANGED app

\* the default of the parameter: maxAgeMinutes = this.config.maxSessionAgeMinutes
maxAgeOr(arg) == IF arg = NoArg THEN maxSessionAgeMinutes ELSE arg

ClearOldSessions(maxAgeMinutes) ==
  /\ sessions' = clearOldSessions(sessions, objs, now, maxAgeOr(maxAgeMinutes))
  /\ call' = [fn |-> "clearOldSessions", maxAgeMinutes |-> maxAgeMinutes,
              result |-> Cardinality(DOMAIN sessions) - Cardinality(DOMAIN sessions')]
  /\ ev' = ChatEvent
  /\ UNCHANGED <<cb, now, ticks, op, calls, consec, objs, req, uuid, nsub,
                 upfails, nchunk, nfail>>
  /\ UNCHANGED app

GetActiveSessionsCount ==
  /\ call' = [fn |-> "getActiveSessionsCount",
              result |-> Cardinality(DOMAIN sessions)]
  /\ ev' = ChatEvent
  /\ UNCHANGED <<cb, now, ticks, op, calls, consec>>
  /\ UNCHANGED chatVars
  /\ UNCHANGED app

GetCircuitBreakerStats ==
  /\ call' = [fn |-> "getCircuitBreakerStats", result |-> getStats(cb)]
  /\ ev' = ChatEvent
  /\ UNCHANGED <<cb, now, ticks, op, calls, consec>>
  /\ UNCHANGED chatVars
  /\ UNCHANGED app

\* AIService.resetCircuitBreaker: this.circuitBreaker.reset()
ResetCircuitBreaker == Reset

\* the time after which the default clean-up takes a session for old
SessionAges == {maxSessionAgeMinutes * 60 * 1000 + 1}

\* ---------------------------------------------------------- specifications

\* callers of execute() overlap freely
NextCB ==
  \/ \E c \in Ops : ExecuteCall(c)
  \/ \E c \in Ops : ExecuteSyncThrow(c)
  \/ \E c \in Ops : OpResolve(c)
  \/ \E c \in Ops : OpReject(c)
  \/ Reset
  \/ Tick

SpecCB == Init /\ [][NextCB]_vars

\* execute() calls run one at a time: a call starts only when none is pending
NextSeq ==
  \/ \E c \in Ops : InFlight = {} /\ ExecuteCall(c)
  \/ \E c \in Ops : InFlight = {} /\ ExecuteSyncThrow(c)
  \/ \E c \in Ops : OpResolve(c)
  \/ \E c \in Ops : OpReject(c)
  \/ Tick

SpecSeq == Init /\ [][NextSeq]_vars

\* Chat requests against the session map: up to MaxReq calls pending at once,
\* on new or known sessions.  Callers keep no subscription here (what a
\* caller sees is followed in SpecDeliver).
Next ==
  \/ \E r \in Reqs, t \in Texts :
       nsub < MaxSubmits /\ Submit(r, FALSE, ForeignId, t)
  \/ \E r \in Reqs, sid \in KnownIds, t \in Texts :
       nsub < MaxSubmits /\ Submit(r, TRUE, sid, t)
  \/ \E r \in Reqs, c \in Contents : nchunk < MaxChunks /\ UpChunk(r, c)
  \/ \E r \in Reqs, c \in Contents :
       (emits(c) => nchunk < MaxChunks) /\ UpFinish(r, c)
  \/ \E r \in Reqs : nfail < MaxFails /\ UpFail(r, 503)
  \/ \E r \in Reqs : SleepDone(r)

Spec == Init /\ [][Next]_vars

\* One chat request at a time and its caller, who subscribes to the returned
\* stream at any moment after processMessage returned.
NextDeliver ==
  \/ \E t \in Texts : nsub < MaxSubmits /\ Submit(1, FALSE, ForeignId, t)
  \/ Subscribe(1)
  \/ \E c \in Contents : nchunk < MaxChunks /\ UpChunk(1, c)
  \/ \E c \in Contents : (emits(c) => nchunk < MaxChunks) /\ UpFinish(1, c)
  \/ nfail < MaxFails /\ UpFail(1, 503)
  \/ SleepDone(1)

SpecDeliver == Init /\ [][NextDeliver]_vars

\* The retry scenario: one conversation, its requests sent one after the
\* other (the first without sessionId, the later ones with the id it got),
\* against an upstream that fails with any error, yields text or ends; the
\* clock moves with the retry timers.
NextRetry ==
  \/ \E t \in Texts :
       nsub < MaxStreams /\ sessions = <<>> /\ Submit(1, FALSE, ForeignId, t)
  \/ \E sid \in DOMAIN sessions, t \in Texts :
       nsub < MaxStreams /\ Submit(1, TRUE, sid, t)
  \/ nchunk < MaxChunks /\ UpChunk(1, <<"a">>)
  \/ UpFinish(1, <<>>)
  \/ \E e \in UpstreamErrors : UpFail(1, e)
  \/ SleepDone(1)

SpecRetry == Init /\ [][NextRetry]_vars

\* One conversation again, a few requests long, with the timers firing and
\* every upstream call coming to an end (it resolves or it rejects).
NextAttempts ==
  \/ \E t \in Texts :
       nsub < MaxAttemptStreams /\ sessions = <<>> /\ Submit(1, FALSE, ForeignId, t)
  \/ \E sid \in DOMAIN sessions, t \in Texts :
       nsub < MaxAttemptStreams /\ Submit(1, TRUE, sid, t)
  \/ nchunk < MaxChunks /\ UpChunk(1, <<"a">>)
  \/ UpFinish(1, <<>>)
  \/ \E e \in UpstreamErrors : UpFail(1, e)
  \/ SleepDone(1)

SpecAttempts ==
  /\ Init
  /\ [][NextAttempts]_vars
  /\ WF_vars(SleepDone(1))
  /\ WF_vars(UpFinish(1, <<>>) \/ \E e \in UpstreamErrors : UpFail(1, e))

\* One caller at a time, subscribed to its stream, with the clock running
\* between its requests and the administrative operations called while a
\* request awaits completion.
NextAdmin ==
  \/ \E t \in Texts :
       nsub < MaxAdminSubmits /\ sessions = <<>> /\ objs = <<>>
         /\ Submit(1, FALSE, ForeignId, t)
  \/ \E sid \in KnownIds \ {ForeignId}, t \in Texts :
       nsub < MaxAdminSubmits /\ Submit(1, TRUE, sid, t)
  \/ Subscribe(1)
  \/ nchunk < MaxChunks /\ UpChunk(1, <<"a">>)
  \/ UpFinish(1, <<>>)
  \/ nfail < MaxFails /\ UpFail(1, 503)
  \/ SleepDone(1)
  \/ ~Pending(req[1]) /\ TickBy(SessionAges)
  \/ Pending(req[1]) /\ GetCircuitBreakerStats
  \/ Pending(req[1]) /\ ResetCircuitBreaker
  \/ Pending(req[1]) /\ GetActiveSessionsCount
  \/ Pending(req[1]) /\ ClearOldSessions(maxSessionAgeMinutes)

SpecAdmin == Init /\ [][NextAdmin]_vars

\* Sessions created and completed at different times, and swept.
SweepSteps == {30 * 60 * 1000, 60 * 60 * 1000, 60 * 60 * 1000 + 1}
SweepAges == {NoArg, 30, 60}

NextSweep ==
  \/ \E t \in Texts : nsub < MaxSweepSubmits /\ Submit(1, FALSE, ForeignId, t)
  \/ UpFinish(1, <<>>)
  \/ TickBy(SweepSteps)
  \/ \E m \in SweepAges : ClearOldSessions(m)

SpecSweep == Init /\ [][NextSweep]_vars

\* One caller whose socket may go away at any moment of its request.
NextCancel ==
  \/ \E t \in Texts : nsub < MaxSubmits /\ Submit(1, FALSE, ForeignId, t)
  \/ Subscribe(1)
  \/ \E c \in Contents : nchunk < MaxChunks /\ UpChunk(1, c)
  \/ \E c \in Contents : (emits(c) => nchunk < MaxChunks) /\ UpFinish(1, c)
  \/ nfail < MaxFails /\ UpFail(1, 503)
  \/ SleepDone(1)
  \/ Disconnect(1)

SpecCancel == Init /\ [][NextCancel]_vars

\* ------------------------------------------------------------------ claims
FailureStep == ev'.res \in {"failure", "syncfail"}
SuccessStep == ev'.res = "success"

\* calculateRetryDelay on its own, beside a conversation whose failed
\* attempts are retried after the delays it returns.
NextDelay ==
  \/ CalculateRetryDelay
  \/ NextAttempts

SpecDelay == InitDelay /\ [][NextDelay]_vars

\* One caller of execute() at a time, the clock, reset(), and the breaker
\* read at any moment, directly or through AIService.
NextRead ==
  \/ InFlight = {} /\ ExecuteCall(1)
  \/ OpResolve(1)
  \/ OpReject(1)
  \/ Reset
  \/ Tick
  \/ GetStats
  \/ GetState
  \/ GetCircuitBreakerStats

SpecRead == Init /\ [][NextRead]_vars

\* The breaker recovering: operations fail only among the first calls let
\* through, each one settles, time passes a timeout at a step, and execute
\* keeps being called.
LastFailingCall == MaxCalls - successThreshold

NextRecover ==
  \/ \E c \in Ops : ExecuteCall(c)
  \/ \E c \in Ops : OpResolve(c)
  \/ \E c \in Ops : calls <= LastFailingCall /\ OpReject(c)
  \/ Reset
  \/ TickBy({timeout})

SpecRecover ==
  /\ Init
  /\ [][NextRecover]_vars
  /\ WF_vars(\E c \in Ops : ExecuteCall(c))
  /\ WF_vars(\E c \in Ops : OpResolve(c))
  /\ WF_vars(TickBy({timeout}))

\* Callers that pass any session id they have seen, or one of their own
\* making, while sessions are deleted and swept.
NextStale ==
  \/ \E t \in Texts : nsub < MaxSubmits /\ Submit(1, FALSE, ForeignId, t)
  \/ \E sid \in KnownIds, t \in Texts :
       nsub < MaxSubmits /\ Submit(1, TRUE, sid, t)
  \/ UpFinish(1, <<"a">>)
  \/ TickBy(SessionAges)
  \/ \E sid \in KnownIds : DeleteSession(sid)
  \/ ClearOldSessions(NoArg)

SpecStale == Init /\ [][NextStale]_vars

\* The browser's connection: the application connects and disconnects, the
\* sockets report, the timers fire.
NextWs ==
  \/ WsConnect
  \/ WsDisconnect
  \/ \E t \in app.timers : TimerFire(t)
  \/ \E s \in DOMAIN app.socks : OnConnect(s)
  \/ \E s \in DOMAIN app.socks, reason \in DisconnectReasons : OnDisconnect(s, reason)
  \/ \E s \in DOMAIN app.socks : OnConnectionError(s)

SpecWs == Init /\ [][NextWs]_vars

\* One browser chatting: its socket connects, it sends its messages one
\* after the other, the gateway subscribes to each stream.
NextClient ==
  \/ \E s \in DOMAIN app.socks : OnConnect(s)
  \/ \E t \in Texts :
       /\ nsub < MaxSubmits
       /\ isSocketConnected(app) \/ Len(app.errors) < MaxOfflineSends
       /\ app.seen[1] = Len(req[1].out)
       /\ ClientSend(1, t)
  \/ Subscribe(1)
  \/ \E c \in Contents : nchunk < MaxChunks /\ UpChunk(1, c)
  \/ \E c \in Contents : (emits(c) => nchunk < MaxChunks) /\ UpFinish(1, c)
  \/ nfail < MaxFails /\ UpFail(1, 503)
  \/ SleepDone(1)
  \/ Deliver(1)

SpecClient == Init /\ [][NextClient]_vars

\* One browser that may send its next message while the response to the
\* previous one is still arriving.
NextChat ==
  \/ \E s \in DOMAIN app.socks : OnConnect(s)
  \/ \E r \in Reqs, t \in Texts :
       /\ nsub < MaxSubmits
       /\ isSocketConnected(app)
       /\ app.seen[r] = Len(req[r].out)
       /\ ClientSend(r, t)
  \/ \E r \in Reqs : Subscribe(r)
  \/ \E r \in Reqs : nchunk < MaxChunks /\ UpChunk(r, <<"a">>)
  \/ \E r \in Reqs : UpFinish(r, <<>>)
  \/ \E r \in Reqs : Deliver(r)

SpecChat == Init /\ [][NextChat]_vars

\* C1: with execute calls run one at a time on a breaker that starts CLOSED,
\* the breaker leaves CLOSED for OPEN exactly at the failure that brings the
\* number of consecutive failures to failureThreshold; while it is CLOSED
\* failureCount is that number and is below the threshold; a success sets
\* failureCount to 0.
C1_OpensExactlyAtThreshold ==
  [][ /\ (cb.state = "CLOSED" /\ FailureStep)
         => (cb'.state = "OPEN" <=> consec' = failureThreshold)
      /\ (cb.state = "CLOSED" /\ cb'.state = "OPEN")
         => (FailureStep /\ consec' = failureThreshold)
      /\ (cb'.state = "CLOSED")
         => (cb'.failureCount = consec' /\ consec' < failureThreshold)
      /\ SuccessStep => cb'.failureCount = 0
    ]_vars

\* C1 witness: six calls with no time passing, one of them a success, the
\* breaker OPEN at the fifth consecutive failure.
C1_Witness ==
  /\ cb.state = "OPEN"
  /\ consec = failureThreshold
  /\ calls = failureThreshold + 1
  /\ ticks = 0
  /\ ev.res = "failure"

\* C2: an execute call made while the breaker is OPEN and the clock is
\* before lastFailureTime + timeout is rejected with the fast-fail error,
\* does not invoke the operation, and changes no field of the breaker.
C2_FastFailWhileOpen ==
  [][ (/\ ev'.op = "execute"
       /\ cb.state = "OPEN"
       /\ cb.lastFailureTime # Null
       /\ now < cb.lastFailureTime + timeout)
      => (/\ ev'.res = "fastfail"
          /\ calls' = calls
          /\ cb' = cb
          /\ op' = op)
    ]_vars

\* C2 witness: a call has just been rejected, some time after the last
\* failure but before the timeout ran out.
C2_Witness ==
  /\ ev.op = "execute"
  /\ ev.res = "fastfail"
  /\ cb.state = "OPEN"
  /\ now > cb.lastFailureTime
  /\ now < cb.lastFailureTime + timeout

\* C3: any failed execute while the breaker is HALF_OPEN leaves it OPEN with
\* successCount = 0, also after successes were already seen in HALF_OPEN.
C3_HalfOpenFailureReopens ==
  [][ (cb.state = "HALF_OPEN" /\ FailureStep)
      => (cb'.state = "OPEN" /\ cb'.successCount = 0)
    ]_vars

\* --------------------------------------------- claims on the chat requests
RECURSIVE Flatten(_)
Flatten(chunks) ==
  IF chunks = <<>> THEN <<>> ELSE Head(chunks) \o Flatten(Tail(chunks))

IsText(c) == c # <<>>
Fragments(up) == SelectSeq(up, IsText)

\* processMessage was called on slot r in this step
Started(r) == req'[r].mid # req[r].mid
\* the request on slot r came to the given end in this step
Ended(r, how) == req'[r].st = how /\ (req[r].st # how \/ Started(r))
\* an attempt of the request on slot r failed in this step
AttemptFailed(r) == req[r].st = "running" /\ req'[r].st \in {"sleeping", "error"}

C5_AuthNotRetried ==
  \A r \in Reqs :
    req[r].err = "AIAuthenticationException" => req[r].st = "error"

\* C6: when a submit ends in an error (the last attempt failed, or the
\* breaker rejected it) the session is still in the map under its id, holds
\* no Assistant turn of that submit, and, no other submit having touched it
\* meanwhile, holds exactly the turns it had before the call followed by the
\* new User turn; the step that raises the error changes no session.
C6_ErrorLeavesTranscript ==
  [][ \A r \in Reqs :
        Ended(r, "error") =>
          LET q == req'[r]
              m == objs'[q.obj].messages
          IN /\ q.sid \in DOMAIN sessions'
             /\ sessions'[q.sid] = q.obj
             /\ \A i \in 1..Len(m) : m[i].id # q.mid
             /\ q.alone => /\ Len(m) = Len(q.pre) + 1
                           /\ SubSeq(m, 1, Len(q.pre)) = q.pre
                           /\ m[Len(m)].role = "user"
                           /\ m[Len(m)].id = q.mid - 1
             /\ ~Started(r) => (objs' = objs /\ sessions' = sessions)
    ]_vars

\* C6 witness: a later request of a conversation failed after text of it had
\* been forwarded.
C6_Witness ==
  /\ req[1].st = "error"
  /\ req[1].err # "CircuitBreakerOpenException"
  /\ req[1].content # <<>>
  /\ Len(req[1].pre) >= 2

AssistantTurns(m) == {i \in 1..Len(m) : m[i].role = "assistant"}

\* C7: a session gains an Assistant turn only in the step in which the
\* stream of a submit completes; that step appends exactly one, whose id is
\* the submit's messageId and whose text is the concatenation, in order, of
\* the fragments forwarded for that submit, and sets updatedAt to the time of
\* that step.
C7_AssistantTurnOnCompletion ==
  [][ /\ \A o \in 1..Len(objs) :
           LET m == objs[o].messages
               m2 == objs'[o].messages
               done == {r \in Reqs : Ended(r, "done") /\ req'[r].obj = o}
           IN IF done = {}
                THEN Cardinality(AssistantTurns(m2)) = Cardinality(AssistantTurns(m))
                ELSE \E r \in done :
                       /\ m2 = Append(m, createMessage("assistant",
                                           Flatten(req'[r].fwd), req'[r].sid,
                                           req'[r].mid))
                       /\ objs'[o].updatedAt = now
      /\ \A o \in (Len(objs) + 1)..Len(objs') :
           AssistantTurns(objs'[o].messages) = {}
      /\ \A r \in Reqs : Ended(r, "done") => req[r].st = "running"
    ]_vars

\* C7 witness: an Assistant turn made of two fragments, committed after a
\* retry.
C7_Witness ==
  \E o \in 1..Len(objs) :
    /\ objs[o].updatedAt > 0
    /\ \E i \in 1..Len(objs[o].messages) :
         /\ objs[o].messages[i].role = "assistant"
         /\ objs[o].messages[i].content = <<"a", "b", "c">>

\* C8 as stated: whenever the caller subscribes, it has received every
\* fragment the upstream produced, in order, and one terminal signal.
C8_AllFragmentsDelivered ==
  \A r \in Reqs :
    req[r].term # "none" =>
      /\ req[r].recv = Fragments(req[r].up)
      /\ req[r].nterm = 1

\* C8 amended: the fragments forwarded are the upstream's chunks that carry
\* text, in order; the caller receives, unchanged and in that order, exactly
\* those forwarded from its subscription on (all of them when it subscribes
\* before the first), and then exactly one terminal signal, completion or
\* error, also when the stream had ended before it subscribed.  Fragments
\* forwarded before the subscription are not handed over.
C8_DeliveredFromSubscription ==
  \A r \in Reqs :
    LET q == req[r] IN
    /\ q.fwd = Fragments(q.up)
    /\ q.subAt <= Len(q.fwd)
    /\ q.recv = IF q.sub THEN SubSeq(q.fwd, q.subAt + 1, Len(q.fwd)) ELSE <<>>
    /\ q.nterm = IF q.sub /\ q.st \in {"done", "error"} THEN 1 ELSE 0
    /\ q.term = CASE q.sub /\ q.st = "done"  -> "complete"
                  [] q.sub /\ q.st = "error" -> "error"
                  [] OTHER                   -> "none"

\* C8 witness: the caller subscribed between two fragments, got the second
\* and the completion.
C8_Witness ==
  /\ req[1].term = "complete"
  /\ req[1].subAt = 1
  /\ Len(req[1].fwd) = 2
  /\ Len(req[1].recv) = 1

\* C9: a stream request whose attempts all fail calls the upstream at most
\* maxRetries times, sleeps calculateRetryDelay(n) after failed attempt n
\* before the next one, ends with the last error and never completes; under
\* the fairness of SpecAttempts every request comes to an end.
C9_Inv ==
  \A r \in Reqs :
    LET q == req[r] IN
    /\ q.ncalls <= maxRetries
    /\ Len(q.delays) = IF q.st = "sleeping" THEN q.ncalls
                        ELSE IF q.ncalls = 0 THEN 0 ELSE q.ncalls - 1
    /\ \A i \in 1..Len(q.delays) : q.delays[i] = calculateRetryDelay(i)
    /\ (q.st = "error" /\ q.err # "CircuitBreakerOpenException")
         => /\ q.ncalls = maxRetries
            /\ q.delays = <<calculateRetryDelay(1), calculateRetryDelay(2)>>
            /\ q.term # "complete"
            /\ \A i \in 1..Len(objs[q.obj].messages) :
                 objs[q.obj].messages[i].id # q.mid

C9_Step ==
  \A r \in Reqs :
    /\ (AttemptFailed(r) /\ req'[r].st = "sleeping")
         => req'[r].wakeAt = now + calculateRetryDelay(req[r].ncalls)
    /\ (req[r].st = "sleeping" /\ req'[r].st = "running")
         => (now' >= req[r].wakeAt /\ req'[r].ncalls = req[r].ncalls + 1)
    /\ (req[r].st = "error" /\ ~Started(r)) => req'[r].st = "error"

C9_RetriesBoundedAndEnd ==
  /\ []C9_Inv
  /\ [][C9_Step]_vars
  /\ \A r \in Reqs : Pending(req[r]) ~> ~Pending(req[r])

\* C9 witness: three failed attempts, delays of 1000 and 2000 ms taken, the
\* request ended with the error.
C9_Witness ==
  /\ req[1].st = "error"
  /\ req[1].ncalls = maxRetries
  /\ req[1].delays = <<1000, 2000>>
  /\ now >= 3000

\* C10: no session has two submits awaiting completion at once, and every
\* Assistant turn directly follows the User turn it answers.
C10_SingleWriter ==
  /\ \A r, x \in Reqs :
       (r # x /\ Pending(req[r]) /\ Pending(req[x])) => req[r].obj # req[x].obj
  /\ \A o \in 1..Len(objs) :
       \A i \in AssistantTurns(objs[o].messages) :
         /\ i > 1
         /\ objs[o].messages[i - 1].role = "user"
         /\ objs[o].messages[i - 1].id = objs[o].messages[i].id - 1

\* ------------------------------------------------ claims on the context
RECURSIVE SumTokens(_)
SumTokens(ms) ==
  IF ms = <<>> THEN 0 ELSE estimateTokens(Head(ms).content) + SumTokens(Tail(ms))

Fitted == call.fn = "fitToContextWindow" /\ call.done

\* C11: the estimated token costs of the messages fitToContextWindow returns
\* add up to no more than the budget, also when the list holds a system
\* message.
C11_FitWithinBudget ==
  Fitted => SumTokens(call.result) <= call.maxContextTokens

\* C12: when the list holds a system message and other messages, the result
\* of fitToContextWindow starts with the system message and the other kept
\* messages follow in the order they had in the list.
C12_SystemFirst ==
  (/\ Fitted
   /\ \E i \in 1..Len(call.messages) : call.messages[i].role = "system"
   /\ \E i \in 1..Len(call.messages) : call.messages[i].role # "system")
    => /\ call.result # <<>>
       /\ call.result[1].role = "system"
       /\ \A i, j \in 2..Len(call.result) :
            i < j => call.result[i].id < call.result[j].id

Built == call.fn = "buildConversationContext" /\ call.done

\* C13: the context built for the pipeline is the system turn, then the
\* most recent min(n, maxContextMessages) turns of the session in their
\* order, the User turn just appended last; it holds at most
\* maxContextMessages + 1 messages and exactly one system turn.
C13_ContextShape ==
  Built =>
    LET ctx == call.result
        m == call.session.messages
        n == Len(m)
        k == Min(n, maxContextMessages)
    IN /\ Len(ctx) = k + 1
       /\ Len(ctx) <= maxContextMessages + 1
       /\ ctx[1].role = "system"
       /\ \A i \in 1..k : ctx[i + 1] = m[n - k + i]
       /\ ctx[Len(ctx)] = m[n]
       /\ ctx[Len(ctx)].role = "user"
       /\ Cardinality({i \in 1..Len(ctx) : ctx[i].role = "system"}) = 1

\* C13 witness: a context built from a session of more than
\* maxContextMessages turns.
C13_Witness ==
  /\ Built
  /\ Len(call.session.messages) > maxContextMessages
  /\ Len(call.result) = maxContextMessages + 1

\* C14: a submit without sessionId creates exactly one session; a submit
\* with the id of a session in the map creates none and appends its User turn
\* to that session; after n submits on one session, each started after the
\* one before completed, the session holds 2n turns, User and Assistant in
\* turn.
C14_Step ==
  \A r \in Reqs :
    Started(r) =>
      LET sid == req'[r].sid
          o == req'[r].obj
      IN IF sid \in DOMAIN sessions
           THEN /\ sessions' = sessions
                /\ Len(objs') = Len(objs)
                /\ o = sessions[sid]
                /\ Len(objs'[o].messages) = Len(objs[o].messages) + 1
                /\ SubSeq(objs'[o].messages, 1, Len(objs[o].messages))
                     = objs[o].messages
                /\ objs'[o].messages[Len(objs'[o].messages)].role = "user"
           ELSE /\ DOMAIN sessions' = DOMAIN sessions \cup {sid}
                /\ Len(objs') = Len(objs) + 1
                /\ o = Len(objs')
                /\ sessions'[sid] = o
                /\ \A x \in DOMAIN sessions : sessions'[x] = sessions[x]
                /\ Len(objs'[o].messages) = 1
                /\ objs'[o].messages[1].role = "user"

C14_Alternate ==
  (nfail = 0 /\ nsub > 0) =>
    /\ Len(objs) = 1
    /\ DOMAIN sessions = {objs[1].id}
    /\ Len(objs[1].messages) = IF Pending(req[1]) THEN 2 * nsub - 1 ELSE 2 * nsub
    /\ \A i \in 1..Len(objs[1].messages) :
         objs[1].messages[i].role = IF i % 2 = 1 THEN "user" ELSE "assistant"

C14_SessionsAndTurns == [][C14_Step]_vars /\ []C14_Alternate

\* C14 witness: two submits completed on the one session, four turns.
C14_Witness ==
  /\ nfail = 0
  /\ nsub = 2
  /\ req[1].st = "done"
  /\ Len(objs) = 1
  /\ Len(objs[1].messages) = 4

\* --------------------------------------- further claims on the breaker
\* C15: once the breaker is HALF_OPEN, successCount is the number of
\* successes since it entered HALF_OPEN or since the last failure (0 on
\* entry, one more per success, 0 after a failure); the success that brings
\* it to successThreshold leaves the breaker CLOSED with failureCount 0 and
\* successCount 0, and after fewer successes the breaker is still HALF_OPEN.
C15_Step ==
  /\ (cb.state = "OPEN" /\ cb'.state = "HALF_OPEN") => cb'.successCount = 0
  /\ (cb.state = "HALF_OPEN" /\ FailureStep) => cb'.successCount = 0
  /\ (cb.state = "HALF_OPEN" /\ SuccessStep) =>
       IF cb.successCount + 1 = successThreshold
         THEN /\ cb'.state = "CLOSED"
              /\ cb'.failureCount = 0
              /\ cb'.successCount = 0
         ELSE /\ cb'.state = "HALF_OPEN"
              /\ cb'.successCount = cb.successCount + 1
  /\ (cb.state = "HALF_OPEN" /\ cb'.state = "CLOSED")
       => (SuccessStep \/ ev'.op = "reset")

C15_ClosesAfterSuccesses ==
  /\ [][C15_Step]_vars
  /\ [](cb.state = "HALF_OPEN" => cb.successCount < successThreshold)

\* C15 witness: five failures, the timeout, then two successes: CLOSED with
\* both counters 0.
C15_Witness ==
  /\ cb.state = "CLOSED"
  /\ cb.failureCount = 0
  /\ cb.successCount = 0
  /\ cb.lastFailureTime # Null
  /\ calls = failureThreshold + successThreshold
  /\ ev.res = "success"

Elapsed == cb.lastFailureTime # Null /\ now >= cb.lastFailureTime + timeout

\* C16: an execute call made while the breaker is OPEN and the clock is at
\* or past lastFailureTime + timeout moves the breaker to HALF_OPEN and calls
\* the operation (an operation that throws at once is counted as a failure
\* from HALF_OPEN in the same step); the breaker leaves OPEN only in such a
\* call or in reset(); the passing of time alone changes nothing.
C16_LazyHalfOpen ==
  [][ /\ (ev'.op = "execute" /\ cb.state = "OPEN" /\ Elapsed)
           => /\ calls' = calls + 1
              /\ ev'.res \in {"invoked", "syncfail"}
              /\ ev'.res = "invoked"
                   => /\ cb' = [cb EXCEPT !.state = "HALF_OPEN"]
                      /\ op'[ev'.c].admittedIn = "HALF_OPEN"
              /\ ev'.res = "syncfail"
                   => /\ cb'.failureCount = cb.failureCount + 1
                      /\ cb'.lastFailureTime = now
      /\ (cb.state = "OPEN" /\ cb'.state # "OPEN")
           => \/ ev'.op = "execute" /\ Elapsed /\ cb'.state = "HALF_OPEN"
              \/ ev'.op = "reset" /\ cb'.state = "CLOSED"
      /\ ev'.op = "tick" => cb' = cb
    ]_vars

\* C16 witness: a call made exactly timeout after the last failure was let
\* through and the breaker is HALF_OPEN.
C16_Witness ==
  /\ ev.op = "execute"
  /\ ev.res = "invoked"
  /\ cb.state = "HALF_OPEN"
  /\ now = cb.lastFailureTime + timeout
  /\ calls = failureThreshold + 1

\* C17: reset(), whatever the state it is called in, leaves the breaker
\* CLOSED with failureCount 0, successCount 0 and lastFailureTime null, and
\* an execute call that comes next calls its operation.
C17_ResetCloses ==
  [][ /\ ev'.op = "reset"
           => cb' = [state |-> "CLOSED", failureCount |-> 0, successCount |-> 0,
                     lastFailureTime |-> Null]
      /\ (ev.op = "reset" /\ ev'.op = "execute")
           => /\ ev'.res \in {"invoked", "syncfail"}
              /\ calls' = calls + 1
    ]_vars

\* C17 witness: reset() was called on a breaker that had been OPEN, while a
\* call let through in HALF_OPEN was still pending.
C17_Witness ==
  /\ ev.op = "reset"
  /\ cb.state = "CLOSED"
  /\ cb.lastFailureTime = Null
  /\ \E c \in Ops : op[c].st = "running" /\ op[c].admittedIn = "HALF_OPEN"

\* what one counted failure does to the breaker, from the state held when
\* the operation was called
CountsFailure(from) ==
  /\ cb'.failureCount = cb.failureCount + 1
  /\ cb'.lastFailureTime = now
  /\ cb'.successCount = 0
  /\ cb'.state = IF cb'.failureCount >= failureThreshold THEN "OPEN" ELSE from

\* what one counted success does to the breaker
CountsSuccess ==
  /\ cb'.failureCount = 0
  /\ cb'.lastFailureTime = cb.lastFailureTime
  /\ IF cb.state = "HALF_OPEN"
       THEN IF cb.successCount + 1 >= successThreshold
              THEN cb'.state = "CLOSED" /\ cb'.successCount = 0
              ELSE cb'.state = "HALF_OPEN" /\ cb'.successCount = cb.successCount + 1
       ELSE cb'.state = cb.state /\ cb'.successCount = cb.successCount

\* C18: an execute call ends in one of three ways.  It is rejected at once
\* with the fast-fail error, the operation not called and nothing counted; or
\* the operation is called once and then either resolves, which counts one
\* success, or fails, which counts exactly one failure, the same whether the
\* operation threw at once or its promise rejected.  A call let through ends
\* once.
C18_Step ==
  /\ ev'.op = "execute"
       => /\ op[ev'.c].st = "idle"
          /\ ev'.res \in {"fastfail", "invoked", "syncfail"}
          /\ ev'.res = "fastfail"
               => (cb' = cb /\ calls' = calls /\ op' = op /\ consec' = consec)
          /\ ev'.res = "invoked"
               => /\ calls' = calls + 1
                  /\ op'[ev'.c].st = "running"
                  /\ cb'.failureCount = cb.failureCount
                  /\ cb'.successCount = cb.successCount
          /\ ev'.res = "syncfail"
               => /\ calls' = calls + 1
                  /\ op' = op
                  /\ consec' = consec + 1
                  /\ CountsFailure(IF cb.state = "OPEN" THEN "HALF_OPEN" ELSE cb.state)
  /\ ev'.op = "settle"
       => /\ op[ev'.c].st = "running"
          /\ op'[ev'.c].st = "idle"
          /\ calls' = calls
          /\ ev'.res \in {"success", "failure"}
          /\ ev'.res = "success" => CountsSuccess
          /\ ev'.res = "failure" => (consec' = consec + 1 /\ CountsFailure(cb.state))
  /\ \A c \in Ops :
       (op[c].st = "running" /\ op'[c].st = "idle")
         => (ev'.op = "settle" /\ ev'.c = c)

C18_ExecuteOutcomes == [][C18_Step]_vars

\* C18 witness: the breaker opened by an operation that threw at once, the
\* fifth failure in a row.
C18_Witness ==
  /\ ev.res = "syncfail"
  /\ cb.state = "OPEN"
  /\ cb.failureCount = failureThreshold
  /\ calls = failureThreshold
  /\ consec = failureThreshold

\* ------------------------------------ claims on what surrounds a request
\* C19: with the administrative operations called only while a submit
\* awaits completion, a submit whose stream completed has its Assistant turn
\* in the transcript getSession returns for its session id.
C19_AdminKeepsCompletion ==
  \A r \in Reqs :
    req[r].st = "done" =>
      LET session == getSession(sessions, objs, req[r].sid) IN
      /\ session # Undefined
      /\ \E i \in 1..Len(session.messages) : session.messages[i].id = req[r].mid

\* C20: once the caller of a submit is gone while the submit awaits
\* completion, the upstream is not called or read for it any more, and the
\* breaker's failureCount and state stay as they are.
C20_CancelStopsUpstream ==
  [][ \A r \in Reqs :
        (req[r].gone /\ Pending(req[r]))
          => /\ req'[r].up = req[r].up
             /\ req'[r].ncalls = req[r].ncalls
             /\ req'[r].st # "done"
             /\ cb'.failureCount = cb.failureCount
             /\ cb'.state = cb.state
    ]_vars

\* --------------------------------------------------- claims, continued
\* C21: clearOldSessions(maxAgeMinutes) removes from the map exactly the
\* sessions whose updatedAt lies more than maxAgeMinutes back, returns how
\* many it removed, and leaves the other sessions and every transcript as
\* they were; called without argument it takes 60 minutes.
C21_SweepExact ==
  [][ (call'.fn = "clearOldSessions" /\ req' = req /\ now' = now) =>
        LET m == IF call'.maxAgeMinutes = NoArg THEN 60 ELSE call'.maxAgeMinutes
            old == {id \in DOMAIN sessions :
                      now - objs[sessions[id]].updatedAt > m * 60000}
        IN /\ DOMAIN sessions' = DOMAIN sessions \ old
           /\ \A id \in DOMAIN sessions' : sessions'[id] = sessions[id]
           /\ objs' = objs
           /\ (call' # call \/ sessions' # sessions)
                => call'.result = Cardinality(old)
    ]_vars

\* C21 witness: three sessions, two of them last updated more than 60
\* minutes ago: the sweep removed those two.
C21_Witness ==
  /\ call.fn = "clearOldSessions"
  /\ call.maxAgeMinutes \in {NoArg, 60}
  /\ call.result = 2
  /\ Len(objs) = 3
  /\ DOMAIN sessions = {objs[3].id}

C23_EmptyGivesSystem ==
  (Fitted /\ call.messages = <<>>)
    => (Len(call.result) = 1 /\ call.result[1].role = "system")

\* C23 amended: fitToContextWindow applied to an empty list returns the
\* empty list, whatever the budget; it makes up no system message.
C23_EmptyGivesEmpty ==
  (Fitted /\ call.messages = <<>>) => call.result = <<>>

\* C23 witness: the empty list was fitted to a budget with room to spare.
C23_Witness ==
  /\ Fitted
  /\ call.messages = <<>>
  /\ call.maxContextTokens > 0

NotSystem(m) == m.role # "system"
IsSystem(m) == m.role = "system"

\* C24: the non-system messages fitToContextWindow keeps are, in their
\* order, the last ones of the input's non-system messages: none is kept
\* while a more recent one is dropped; when the most recent one fits beside
\* the system message it is kept, as the last of them.
C24_KeptIsSuffix ==
  Fitted =>
    LET given == SelectSeq(call.messages, NotSystem)
        kept == SelectSeq(call.result, NotSystem)
        system == SelectSeq(call.result, IsSystem)
        n == Len(given)
        k == Len(kept)
    IN /\ k <= n
       /\ kept = SubSeq(given, n - k + 1, n)
       /\ (n > 0 /\ SumTokens(system) + estimateTokens(given[n].content)
                      <= call.maxContextTokens)
            => (k > 0 /\ kept[k] = given[n])

\* C24 witness: a list with a system message was cut: some but not all of
\* its other messages were kept.
C24_Witness ==
  /\ Fitted
  /\ \E i \in 1..Len(call.messages) : call.messages[i].role = "system"
  /\ Len(SelectSeq(call.result, NotSystem)) = 1
  /\ Len(SelectSeq(call.messages, NotSystem)) = 2

\* C25: with execute calls overlapping on one breaker no failure is lost:
\* failureCount is the number of operations that failed since the last
\* success or reset(), each failure raises it by exactly one, and a breaker
\* that is CLOSED has fewer than failureThreshold of them, so that k calls let
\* through while CLOSED and all failing leave failureCount at k and the
\* breaker OPEN once k reaches failureThreshold.
C25_NoFailureLost ==
  /\ [](cb.failureCount = consec)
  /\ [](cb.state = "CLOSED" => cb.failureCount < failureThreshold)
  /\ [][ FailureStep =>
           /\ cb'.failureCount = cb.failureCount + 1
           /\ (cb.state = "CLOSED" /\ cb'.failureCount >= failureThreshold)
                => cb'.state = "OPEN"
       ]_vars

\* C25 witness: six calls let through without the clock moving, two of them
\* pending together at the end, all six failed: failureCount 6, OPEN.
C25_Witness ==
  /\ cb.state = "OPEN"
  /\ cb.failureCount = failureThreshold + 1
  /\ calls = failureThreshold + 1
  /\ ticks = 0
  /\ InFlight = {}
  /\ ev.res = "failure"

\* C26: when a browser sends a message after the response to its previous
\* one has completed, processMessage works on the session of the previous
\* message, which holds that message's User turn and the Assistant reply.
C26_SameSession ==
  [][ (req[1].st = "done" /\ Pending(req'[1]) /\ req'[1].mid # req[1].mid)
        => /\ req'[1].obj = req[1].obj
           /\ \E i \in DOMAIN req'[1].pre :
                /\ req'[1].pre[i].role = "user"
                /\ req'[1].pre[i].id = req[1].mid - 1
           /\ \E i \in DOMAIN req'[1].pre :
                /\ req'[1].pre[i].role = "assistant"
                /\ req'[1].pre[i].id = req[1].mid
    ]_vars

\* C27: reconnectAttempts stays within maxReconnectAttempts; a connection
\* error below the limit counts one attempt, schedules one timer and leaves
\* the state RECONNECTING; a connection error at the limit leaves the state
\* ERROR with "Failed to reconnect to server" emitted last, the timers and
\* the count as they were; a socket that connects sets the count to 0.
C27_ReconnectLimit ==
  /\ [](app.reconnectAttempts \in 0..maxReconnectAttempts)
  /\ [][ (app'.last = "onConnectionError" /\ app'.socks # app.socks)
           => IF app.reconnectAttempts < maxReconnectAttempts
                THEN /\ app'.reconnectAttempts = app.reconnectAttempts + 1
                     /\ app'.connectionState = "RECONNECTING"
                     /\ app.timers \subseteq app'.timers
                     /\ Cardinality(app'.timers) = Cardinality(app.timers) + 1
                ELSE /\ app'.reconnectAttempts = app.reconnectAttempts
                     /\ app'.connectionState = "ERROR"
                     /\ app'.timers = app.timers
                     /\ app'.errors =
                          app.errors \o <<"Connection error",
                                          "Failed to reconnect to server">>
       ]_vars
  /\ [][ (app'.last = "onConnect" /\ app'.socks # app.socks)
           => app'.reconnectAttempts = 0 ]_vars

\* C27 witness: five attempts used, a sixth connection error: ERROR
C27_Witness ==
  /\ app.last = "onConnectionError"
  /\ app.reconnectAttempts = maxReconnectAttempts
  /\ app.connectionState = "ERROR"
  /\ Len(app.errors) > 0
  /\ app.errors[Len(app.errors)] = "Failed to reconnect to server"

\* C28: a timer that was pending when disconnect() returned never starts a
\* reconnection: no timer that fires is one of those.
C28_DisconnectIsFinal ==
  [][ (app'.last = "timer" /\ app'.timers # app.timers)
        => (app.timers \ app'.timers) \cap app.barred = {} ]_vars

Reads == {"getStats", "getState", "getCircuitBreakerStats"}
ReadStep == call'.fn \in Reads /\ (ev'.op = "read" \/ ev' = ChatEvent)
TickStep == ev'.op = "tick" /\ now' # now
StateRead(c) == IF c.fn = "getState" THEN c.result ELSE c.result.state
Current(c, b) == c.result = IF c.fn = "getState" THEN b.state ELSE getStats(b)

\* C29: getStats, getState and getCircuitBreakerStats leave the breaker as
\* it was and return its fields; as long as only reads and the clock come
\* after a read, the next read returns the same values.
C29_ReadsArePure ==
  /\ [][ ReadStep => (cb' = cb /\ Current(call', cb)) ]_vars
  /\ [][ ((ReadStep \/ TickStep) /\ call.fn \in Reads /\ Current(call, cb))
           => /\ cb' = cb
              /\ StateRead(call') = StateRead(call)
              /\ call'.fn = call.fn => call'.result = call.result
              /\ (call.fn # "getState" /\ call'.fn # "getState")
                   => call'.result = call.result
       ]_vars

\* C29 witness: read while OPEN with the timeout passed, failures on record
C29_Witness ==
  /\ call.fn = "getStats"
  /\ ev.op = "read"
  /\ cb.state = "OPEN"
  /\ call.result = getStats(cb)
  /\ shouldAttemptReset(cb, now)

\* min(1000 * 2^(n-1), 10000) written out: the power passes 10 once n > 4
BackoffMs(n) == IF n > 4 THEN 10000 ELSE 1000 * 2^(n - 1)

\* C30: calculateRetryDelay(n) is min(1000 * 2^(n-1), 10000): 1000 for
\* n = 1, 2000 for n = 2, nowhere smaller than for n - 1 and nowhere above
\* 10000; and the i-th sleep of a request, the one after its failed attempt
\* i, lasts that long.
C30_Backoff ==
  /\ (call.fn = "calculateRetryDelay" /\ call.done) =>
       /\ call.result = BackoffMs(call.attempt)
       /\ call.result <= 10000
       /\ call.attempt = 1 => call.result = 1000
       /\ call.attempt = 2 => call.result = 2000
       /\ call.attempt > 1 => call.result >= BackoffMs(call.attempt - 1)
  /\ \A r \in Reqs : \A i \in DOMAIN req[r].delays :
       req[r].delays[i] = BackoffMs(i)
  /\ \A r \in Reqs :
       req[r].st = "sleeping" =>
         /\ Len(req[r].delays) = req[r].attempt
         /\ req[r].wakeAt >= BackoffMs(req[r].attempt)

\* C30 witness: the cap at work in a direct call, and a request asleep after
\* its second failed attempt
C30_Witness ==
  /\ call.fn = "calculateRetryDelay"
  /\ call.done
  /\ call.attempt = 5
  /\ call.result = 10000
  /\ req[1].st = "sleeping"
  /\ req[1].attempt = 2
  /\ req[1].delays = <<1000, 2000>>

IsPrefix(a, b) == Len(a) <= Len(b) /\ SubSeq(b, 1, Len(a)) = a

\* C31: within a request nothing forwarded is taken back: what was
\* forwarded, what the consumer received and the text kept for the Assistant
\* turn only grow at their end, a failed attempt leaves them as they are, a
\* chunk of the attempt under way lands after everything earlier attempts
\* forwarded; the text is the concatenation of the forwarded fragments, a
\* consumer subscribed from the start has received all of them, and at most
\* one terminal signal ends the sequence.
C31_Step ==
  \A r \in Reqs :
    ~Started(r) =>
      /\ IsPrefix(req[r].fwd, req'[r].fwd)
      /\ IsPrefix(req[r].recv, req'[r].recv)
      /\ IsPrefix(req[r].content, req'[r].content)
      /\ AttemptFailed(r) => /\ req'[r].fwd = req[r].fwd
                             /\ req'[r].recv = req[r].recv
                             /\ req'[r].content = req[r].content
      /\ req'[r].up # req[r].up =>
           /\ req'[r].attempt = req[r].attempt
           /\ req'[r].fwd =
                req[r].fwd \o Fragments(SubSeq(req'[r].up, Len(req[r].up) + 1,
                                               Len(req'[r].up)))
      /\ req[r].term # "none" => (req'[r].recv = req[r].recv /\ req'[r].nterm = 1)

C31_Inv ==
  \A r \in Reqs :
    /\ req[r].content = Flatten(req[r].fwd)
    /\ req[r].nterm <= 1
    /\ (req[r].sub /\ req[r].subAt = 0) => req[r].recv = req[r].fwd

C31_NeverRetracted == [][C31_Step]_vars /\ []C31_Inv

\* C31 witness: a fragment of the first attempt, its failure, a fragment of
\* the second attempt, completion; the consumer, subscribed from the start,
\* has both.
C31_Witness ==
  /\ req[1].term = "complete"
  /\ req[1].attempt = 2
  /\ req[1].subAt = 0
  /\ Len(req[1].recv) = 2
  /\ req[1].recv = req[1].fwd

AllIds(os) ==
  UNION {{os[o].messages[i].id : i \in 1..Len(os[o].messages)} : o \in 1..Len(os)}

\* C32: the messageId of a submit is new when processMessage returns it
\* (no earlier submit returned it, no stored turn carries it); the step that
\* completes the submit's stream appends the Assistant turn under that id;
\* every message-chunk event the gateway emits for the submit carries it.
C32_Step ==
  \A r \in Reqs :
    /\ Started(r) =>
         /\ req'[r].mid \notin AllIds(objs)
         /\ \A x \in Reqs : req'[r].mid # req[x].mid
         /\ \A x \in Reqs \ {r} : req'[r].mid # req'[x].mid
    /\ Ended(r, "done") =>
         LET m == objs'[req'[r].obj].messages IN
         /\ m[Len(m)].role = "assistant"
         /\ m[Len(m)].id = req'[r].mid
         /\ req'[r].mid \notin AllIds(objs)

C32_Inv ==
  \A r \in Reqs : \A i \in DOMAIN req[r].out :
    req[r].out[i].event = "message-chunk" => req[r].out[i].id = req[r].mid

C33_OpenMeansThreshold ==
  cb.state = "OPEN" => cb.failureCount >= failureThreshold

\* C34: a success that raises successCount, or closes a HALF_OPEN breaker,
\* is the success of an operation that was let through while the breaker was
\* HALF_OPEN.
C34_OnlyProbesCount ==
  [][ \A c \in Ops :
        ( /\ ev' = Event("settle", c, "success")
          /\ op[c].st = "running"
          /\ \/ cb'.successCount > cb.successCount
             \/ (cb.state = "HALF_OPEN" /\ cb'.state = "CLOSED") )
        => op[c].admittedIn = "HALF_OPEN"
    ]_vars

\* no operation can fail any more
FailuresOver ==
  /\ calls >= LastFailingCall
  /\ calls > LastFailingCall \/ InFlight = {}

\* C35: an OPEN breaker has a lastFailureTime; an execute call made on an
\* OPEN breaker timeout milliseconds or more after it is let through; and
\* once no operation fails any more, with execute called again and again and
\* time passing, an OPEN breaker comes back to CLOSED.
C35_OpenRecovers ==
  /\ [](cb.state = "OPEN" => cb.lastFailureTime # Null)
  /\ [][ ( /\ ev'.op = "execute"
           /\ ev' # ev
           /\ cb.state = "OPEN"
           /\ calls < MaxCalls
           /\ now - cb.lastFailureTime >= timeout )
         => (ev'.res = "invoked" /\ calls' = calls + 1 /\ cb'.state = "HALF_OPEN")
       ]_vars
  /\ (cb.state = "OPEN" /\ FailuresOver /\ ticks < MaxTicks) ~> cb.state = "CLOSED"

\* C35 witness: closed again by the two calls that followed the last failing
\* one, the time of the last failure still on record
C35_Witness ==
  /\ cb.state = "CLOSED"
  /\ cb.lastFailureTime # Null
  /\ now >= cb.lastFailureTime + timeout
  /\ calls = LastFailingCall + successThreshold
  /\ consec = 0
  /\ InFlight = {}

\* C36: clearOldSessions leaves in the map the session of every submit whose
\* User turn was appended (at the time of the submit, req.at) less than the
\* given age ago, whether the submit still awaits completion or has ended.
C36_ActivityKeepsSession ==
  [][ \A r \in Reqs :
        ( /\ call'.fn = "clearOldSessions"
          /\ sessions' # sessions
          /\ req[r].st # "free"
          /\ req[r].sid \in DOMAIN sessions
          /\ now - req[r].at < maxAgeOr(call'.maxAgeMinutes) * 60 * 1000 )
        => req[r].sid \in DOMAIN sessions'
    ]_vars

\* C37: a submit that names a session id the map does not hold (an id of
\* the caller's making, or the id of a session deleted or swept) is not
\* turned down for that: a new session object is stored under exactly that
\* id, holding the new User turn alone, and the context built from it is the
\* system turn followed by that User turn.
C37_UnknownIdCreates ==
  [][ \A r \in Reqs :
        ( /\ Started(r)
          /\ req'[r].sid <= uuid
          /\ req'[r].sid \notin DOMAIN sessions )
        => LET q == req'[r]
               session == getSession(sessions', objs', q.sid)
               context == buildConversationContext(session, q.mid)
           IN /\ session # Undefined
              /\ session.id = q.sid
              /\ q.obj = Len(objs) + 1
              /\ q.pre = <<>>
              /\ Len(session.messages) = 1
              /\ session.messages[1].role = "user"
              /\ session.messages[1].id = q.mid - 1
              /\ Len(context) = 2
              /\ context[1].role = "system"
              /\ context[2] = session.messages[1]
              /\ q.err \in {"-", "CircuitBreakerOpenException"}
    ]_vars

\* C37 witness: a session held two turns, was swept, and a submit under its
\* id started a new one
C37_Witness ==
  /\ Len(objs) = 2
  /\ objs[1].id = objs[2].id
  /\ Len(objs[1].messages) = 2
  /\ objs[1].messages[2].content = <<"a">>
  /\ sessions = (objs[2].id :> 2)
  /\ call.fn = "clearOldSessions"
  /\ req[1].st = "running"
  /\ req[1].obj = 2

\* the socket handed the browser an event in this step
Delivered == app'.last = "deliver" /\ app'.seen # app.seen

\* C38: a message-chunk event changes no message of the browser's list but
\* the placeholder made for the request the chunk belongs to.
C38_ChunkToItsPlaceholder ==
  [][ (Delivered /\ app'.got.event = "message-chunk")
        => \A i \in DOMAIN app.messages :
             app'.messages[i] # app.messages[i]
               => app.messages[i].answers = app'.got.id
    ]_vars

\* C39: when the browser is handed the end of a response, the last chunk or
\* the error event, it is left not loading, with no streaming message id and
\* with no message marked isStreaming.
C39_EndLeavesIdle ==
  [][ ( /\ Delivered
        /\ \/ app'.got.event = "error"
           \/ (app'.got.event = "message-chunk" /\ app'.got.isComplete) )
        => /\ ~app'.isLoading
           /\ app'.streamingMessageId = Null
           /\ \A i \in DOMAIN app'.messages : ~app'.messages[i].isStreaming
    ]_vars

====
